---- MODULE Spec2Model ----
(***************************************************************************)
(* A model of app/core/predictor.py: the memoized series                   *)
(* (pre_sum_of_sigma, adjustment_for_delta_coefficient), the Elo win rate  *)
(* (expected_win_rate) and predict_contest (retrieval, the per-contestant  *)
(* binary search, aggregation, the two asyncio.gather fan-outs and the     *)
(* Contest update).                                                        *)
(*                                                                         *)
(* Numbers.  TLC has integers only, so:                                    *)
(*  - a rating is held in ticks, one tick being 4000 / 2^16 rating points  *)
(*    (TickNum / TickDen).  Every value lo, hi and mid take in the binary  *)
(*    search is a whole number of ticks, because the loop halves the       *)
(*    interval [0, 4000] at most 16 times before its width test stops it;  *)
(*    these values are exact in IEEE doubles too;                          *)
(*  - a win rate, and a sum of win rates, is held in units of 1/ProbScale; *)
(*    10^x is read from a table of 10^(j/16) with linear interpolation, so *)
(*    the win rate is an approximation (well within one rating point of    *)
(*    the doubles the program computes on the inputs used here);           *)
(*  - pre_sum_of_sigma(k) is the exact fraction PreSumNum(k) / RatioDen^k. *)
(***************************************************************************)
EXTENDS Integers, Sequences, FiniteSets, TLC

\* ------------------------------------------------------------------ bounds

\* contestants in a solver run (SolverSpec)
MaxN == 2
\* largest rank a record carries (SolverSpec)
MaxRank == 7
\* largest attendedContestsCount of a record (SolverSpec)
MaxK == 1
\* stored records of the batch runs (Spec)
MaxUsers == 2
\* runs of predict_contest in one behaviour (Spec)
MaxRuns == 2
\* readings the clock can give (Spec)
MaxClock == 2
\* largest and smallest argument of the series functions (SeriesSpec)
MaxSeriesK == 3
MaxNegK == 2

\* ------------------------------------------------------- program constants

SearchLo == 0
SearchHi == 4000
MaxIterationInit == 25
\* the width test is hi - lo > 0.1, that is > 1 / ToleranceDen
ToleranceDen == 10
EloScale == 400
RatioNum == 5
RatioDen == 7

\* --------------------------------------------------------- representation

TickNum == SearchHi \div (2^5)
TickDen == (2^16) \div (2^5)
ProbScale == 5 * 10^3
Half == ProbScale \div 2
Unbound == 0 - 1

\* a rating given in rating points (a multiple of TickNum), in ticks
Ticks(r) == (r * TickDen) \div TickNum

\* ---------------------------------------------------------- SeriesCache

RECURSIVE Pow(_, _)
Pow(b, e) == IF e <= 0 THEN 1 ELSE b * Pow(b, e - 1)

\* numerator of pre_sum_of_sigma(k) over the denominator RatioDen^k, k >= 0:
\* (5/7)^k + pre_sum_of_sigma(k - 1) if k >= 1 else 1
RECURSIVE PreSumNum(_)
PreSumNum(k) ==
    IF k >= 1 THEN Pow(RatioNum, k) + RatioDen * PreSumNum(k - 1) ELSE 1

PreSumDen(k) == Pow(RatioDen, k)

\* a faulty variant: the guard written k <= 0
PreSumRaises_AtMostZero(k) == k <= 0

\* the guard of pre_sum_of_sigma: if k < 0: raise ValueError
PreSumRaises(k) == k < 0

\* the keys a call pre_sum_of_sigma(k) leaves in its lru_cache: a raise caches
\* nothing; a hit changes nothing; a miss computes k, k-1, ... down to the
\* first cached key (or 0) and caches each of them.
PreSumCacheAfter(cache, k) ==
    IF PreSumRaises(k) THEN cache
    ELSE cache \cup
         {j \in 0..k : \A h \in j..k : h \notin cache}

\* adjustment_for_delta_coefficient(k) = 1 / (1 + pre_sum_of_sigma(k)), as the
\* fraction <<numerator, denominator>>
Adjustment(k) == <<PreSumDen(k), PreSumDen(k) + PreSumNum(k)>>

\* one call adjustment_for_delta_coefficient(k) with caches pc and ac (the two
\* lru_caches): a hit in ac answers at once, a miss calls pre_sum_of_sigma(k),
\* whose ValueError passes through uncached.
AdjustmentCall(pre, adj, k) ==
    IF k \in adj
    THEN [raised |-> FALSE, value |-> Adjustment(k), pre |-> pre, adj |-> adj]
    ELSE IF k \notin pre /\ PreSumRaises(k)
    THEN [raised |-> TRUE, value |-> <<0, 1>>, pre |-> pre, adj |-> adj]
    ELSE [raised |-> FALSE, value |-> Adjustment(k),
          pre |-> PreSumCacheAfter(pre, k), adj |-> adj \cup {k}]

\* one call pre_sum_of_sigma(k) with cache pre
PreSumCall(pre, k) ==
    IF k \notin pre /\ PreSumRaises(k)
    THEN [raised |-> TRUE, value |-> <<0, 1>>, pre |-> pre]
    ELSE [raised |-> FALSE, value |-> <<PreSumNum(k), PreSumDen(k)>>,
          pre |-> PreSumCacheAfter(pre, k)]

\* ---------------------------------------------------- WinProbabilityModel

\* 1000 * 10^(j/16), j = 0..16
Pow10Table ==
    <<1000, 1155, 1334, 1540, 1778, 2054, 2371, 2738, 3162,
      3652, 4217, 4870, 5623, 6494, 7499, 8660, 10000>>

Min(a, b) == IF a < b THEN a ELSE b

\* 1000 * 10^(f / den) for 0 <= f < den, by the table
Pow10Frac(f, den) ==
    LET seg == den \div 16
        idx == f \div seg
        off == f % seg
    IN  Pow10Table[idx + 1]
          + ((Pow10Table[idx + 2] - Pow10Table[idx + 1]) * off) \div seg

\* one element of expected_win_rate: 1 / (1 + 10^((scalar - v) / 400)), with
\* v and scalar in ticks, the result in units of 1 / ProbScale, rounded down.
\* For a negative exponent it is computed as 1 - 10^x / (1 + 10^x), and kept
\* below 1 as the double is for every difference of two ratings in [0, 4000].
WinRate(v, scalar) ==
    LET den == TickDen * EloScale
        num == (scalar - v) * TickNum
        q   == num \div den
        t   == Pow10Frac(num % den, den)
    IN  IF q >= 0
        THEN (ProbScale * 1000) \div (1000 + t * Pow(10, Min(q, 5)))
        ELSE Min(ProbScale - 1,
                 ProbScale - (ProbScale * t) \div (Pow(10, Min(0 - q, 5) + 3) + t))

RECURSIVE SumWinRate(_, _, _)
SumWinRate(vector, scalar, n) ==
    IF n = 0 THEN 0
    ELSE WinRate(vector[n], scalar) + SumWinRate(vector, scalar, n - 1)

\* np.sum(expected_win_rate(vector, scalar))
SumExpectedWinRate(vector, scalar) == SumWinRate(vector, scalar, Len(vector))

\* ------------------------------------------------------------ RatingSolver

RECURSIVE SqrtSearch(_, _, _)
SqrtSearch(x, lo, hi) ==
    IF hi - lo <= 1 THEN lo
    ELSE LET m == lo + (hi - lo) \div 2
         IN  IF m * m <= x THEN SqrtSearch(x, m, hi) ELSE SqrtSearch(x, lo, m)

\* floor of the square root
Sqrt(x) == SqrtSearch(x, 0, 46341)

\* expected_rank = np.sum(expected_win_rate(rating_array, rating_array[i])) + 0.5
ExpectedRank(ratings, i) == SumExpectedWinRate(ratings, ratings[i]) + Half

\* mean_rank = np.sqrt(expected_rank * rank_array[i])
MeanRank(ratings, ranks, i) == Sqrt(ExpectedRank(ratings, i) * ranks[i] * ProbScale)

\* target = mean_rank - 1
Target(ratings, ranks, i) == MeanRank(ratings, ranks, i) - ProbScale

\* a faulty variant: the loop bounded by its counter alone
LoopCond_NoWidthTest(l, h, m) == m >= 0

\* while hi - lo > 0.1 and max_iteration >= 0
LoopCond(l, h, m) ==
    (h - l) * TickNum * ToleranceDen > TickDen /\ m >= 0

\* mid = lo + (hi - lo) / 2
Mid(l, h) == l + (h - l) \div 2

\* a faulty variant: the two branches of the search exchanged
GoesDown_Reversed(ratings, m, tgt) == SumExpectedWinRate(ratings, m) >= tgt

\* approximation = np.sum(expected_win_rate(rating_array, mid));
\* if approximation < target: hi = mid, else: lo = mid
GoesDown(ratings, m, tgt) == SumExpectedWinRate(ratings, m) < tgt

\* a faulty variant: the midpoint recomputed after the loop
ExpectedRating_FinalMidpoint(l, h, m) == l + (h - l) \div 2

\* expected_rating = mid
ExpectedRating(l, h, m) == m

\* delta_rating = coefficient_of_delta * (expected_rating - rating), in ticks
DeltaRating(coef, expected, rating) ==
    ((expected - rating) * coef[1]) \div coef[2]

\* ------------------------------------------------------------------ state

VARIABLES
    \* the two lru_caches (the keys they hold) and the last direct call's result
    pre_cache, adj_cache, last_call,
    \* the collections: ContestRecordPredict and User by username, Contest's stamp
    db, users, contest_predict_time,
    \* the clock behind datetime.utcnow(), and the runs started so far
    now, runs,
    \* predict_contest: its argument, its position and its locals
    contest_name, pc, update_user_using_prediction, records,
    rank_array, rating_array, k_array, i, lo, hi, mid, max_iteration, target,
    expected_rating_list, coefficient_of_delta_list,
    delta_rating_array, new_rating_array, predict_time,
    \* the tasks of the two asyncio.gather calls, and the update_time of each Set
    save_tasks, user_tasks, update_times,
    \* how the run ended: the step that failed, what the caller saw, the log
    failure, outcome, logged,
    \* history: loop-body executions for the current contestant, the interval
    \* before the last narrowing, runs that ended normally
    iterations, prev_lo, prev_hi, successes

seriesVars == <<pre_cache, adj_cache>>
storeVars == <<db, users, contest_predict_time>>
arrayVars == <<rank_array, rating_array, k_array>>
loopVars == <<lo, hi, mid, max_iteration, target, iterations, prev_lo, prev_hi>>
listVars == <<expected_rating_list, coefficient_of_delta_list>>
resultVars == <<delta_rating_array, new_rating_array>>
taskVars == <<save_tasks, user_tasks, update_times>>
endVars == <<failure, outcome, logged>>

vars ==
    <<pre_cache, adj_cache, last_call, db, users, contest_predict_time, now, runs,
      contest_name, pc, update_user_using_prediction, records,
      rank_array, rating_array, k_array, i, lo, hi, mid, max_iteration, target,
      expected_rating_list, coefficient_of_delta_list,
      delta_rating_array, new_rating_array, predict_time,
      save_tasks, user_tasks, update_times, failure, outcome, logged,
      iterations, prev_lo, prev_hi, successes>>

\* ------------------------------------------------------------------ inputs

Users == 1..MaxUsers

\* contest names: a biweekly slug, the same in upper case, a slug that holds
\* "bi" but does not start with it, and one shorter than the prefix
ContestNames ==
    {<<"b", "i", "w">>, <<"B", "I", "w">>, <<"w", "b", "i">>, <<"b">>}

OtherContest == <<"o">>

BatchRanks == 1..2
BatchRatings == {Ticks(1500)}
BatchKs == 0..1

SolverRatings == {Ticks(1500), Ticks(2000)}

NoCall == [fn |-> "none", k |-> 0, raised |-> FALSE, value |-> <<0, 1>>]

\* ----------------------------------------------------------- BatchPredictor

LowerChar(c) == IF c = "B" THEN "b" ELSE IF c = "I" THEN "i" ELSE c

\* str.lower()
Lower(s) == [j \in 1..Len(s) |-> LowerChar(s[j])]

\* a faulty variant: the prefix test without lower()
StartsWithBi_CaseSensitive(name) ==
    Len(name) >= 2 /\ SubSeq(name, 1, 2) = <<"b", "i">>

\* contest_name.lower().startswith("bi")
StartsWithBi(name) ==
    Len(name) >= 2 /\ SubSeq(Lower(name), 1, 2) = <<"b", "i">>

\* the documents find(contest_name == name, score != 0) matches
Matching(dbv, name) ==
    {u \in Users : dbv[u].contest_name = name /\ dbv[u].score # 0}

\* .sort(rank).to_list(): the matching documents in ascending rank; the order
\* among equal ranks is the store's
SortedLists(dbv, name) ==
    LET S == Matching(dbv, name)
    IN  {s \in [1..Cardinality(S) -> S] :
           /\ \A a, b \in 1..Cardinality(S) : a # b => s[a] # s[b]
           /\ \A a, b \in 1..Cardinality(S) :
                 a < b => dbv[s[a]].rank <= dbv[s[b]].rank}

\* the in-memory document of user u
Document(dbv, u) == [username |-> u] @@ dbv[u]

\* a faulty variant: a join that returns with the first completed task
GatherOutcome_FirstCompleted(tasks) ==
    IF \E j \in DOMAIN tasks : tasks[j] = "failed" THEN "raise"
    ELSE IF \E j \in DOMAIN tasks : tasks[j] = "done" THEN "return"
    ELSE "wait"

\* a faulty variant: gather(..., return_exceptions=True), which never raises
GatherOutcome_ReturnExceptions(tasks) ==
    IF \A j \in DOMAIN tasks : tasks[j] # "pending" THEN "return" ELSE "wait"

\* a faulty variant: a join that rejects an empty set of tasks, as asyncio.wait does
GatherOutcome_EmptyRaises(tasks) ==
    IF DOMAIN tasks = {} \/ \E j \in DOMAIN tasks : tasks[j] = "failed"
    THEN "raise"
    ELSE IF \A j \in DOMAIN tasks : tasks[j] = "done" THEN "return"
    ELSE "wait"

\* await asyncio.gather(*tasks): raises as soon as one task has failed (the
\* other tasks are not cancelled and run on), returns once every task is done,
\* at once when there is no task
GatherOutcome(tasks) ==
    IF \E j \in DOMAIN tasks : tasks[j] = "failed" THEN "raise"
    ELSE IF \A j \in DOMAIN tasks : tasks[j] = "done" THEN "return"
    ELSE "wait"

\* the decorator of predict_contest: logs an exception once and raises it again
ExceptionLoggerReraise(raised) ==
    [outcome |-> IF raised THEN "raised" ELSE "returned", logged |-> raised]

Pending(tasks) == \E j \in DOMAIN tasks : tasks[j] = "pending"

\* ------------------------------------------------------------- the run

\* the locals of predict_contest before its first statement
BlankRun ==
    /\ records = <<>>
    /\ rank_array = <<>> /\ rating_array = <<>> /\ k_array = <<>>
    /\ i = 1
    /\ lo = Unbound /\ hi = Unbound /\ mid = Unbound
    /\ max_iteration = Unbound /\ target = Unbound
    /\ expected_rating_list = <<>> /\ coefficient_of_delta_list = <<>>
    /\ delta_rating_array = <<>> /\ new_rating_array = <<>>
    /\ predict_time = Unbound
    /\ save_tasks = <<>> /\ user_tasks = <<>> /\ update_times = <<>>
    /\ failure = "none" /\ outcome = "none" /\ logged = FALSE
    /\ iterations = 0 /\ prev_lo = Unbound /\ prev_hi = Unbound

StoredDocs(ks) ==
    [contest_name : {OtherContest}, score : {1}, rank : BatchRanks,
     old_rating : BatchRatings, attendedContestsCount : ks,
     delta_rating : {Unbound}, new_rating : {Unbound}, predict_time : {Unbound}]

\* a document of the named contest (its score zero or not) or of another one
DocsFor(name, ks) ==
    StoredDocs(ks) \cup
    {[d EXCEPT !.contest_name = name, !.score = sc] : d \in StoredDocs(ks), sc \in 0..1}

\* the stored documents are listed in a fixed order of their contents:
\* usernames are labels, and a behaviour does not depend on them
DocCode(d) ==
    (IF d.contest_name = OtherContest THEN 0 ELSE 4 + 4 * d.score)
      + 2 * (d.rank - 1) + d.attendedContestsCount

Loaded(from, ks) ==
    /\ pre_cache = {} /\ adj_cache = {} /\ last_call = NoCall
    /\ contest_name \in ContestNames
    /\ db \in [Users -> DocsFor(contest_name, ks)]
    /\ \A u, v \in Users : u < v => DocCode(db[u]) <= DocCode(db[v])
    /\ users = [u \in Users |->
                  [rating |-> db[u].old_rating,
                   attendedContestsCount |-> db[u].attendedContestsCount,
                   update_time |-> 0]]
    /\ contest_predict_time = Unbound
    /\ now = from /\ runs = 0 /\ successes = 0
    /\ pc = "idle"
    /\ update_user_using_prediction = FALSE
    /\ BlankRun

\* one run of predict_contest; the clock starts at its first reading, and the
\* contestants are newcomers
Init == Loaded(1, {0})

\* several runs; the clock has reached its last reading, so that timestamps
\* are not told apart; the counts vary
RerunInit == Loaded(MaxClock, BatchKs)

\* lines 51-61: the first statements of predict_contest(contest_name)
Enter ==
    /\ runs' = runs + 1
    /\ records' = <<>>
    /\ rank_array' = <<>> /\ rating_array' = <<>> /\ k_array' = <<>>
    /\ i' = 1
    /\ lo' = Unbound /\ hi' = Unbound /\ mid' = Unbound
    /\ max_iteration' = Unbound /\ target' = Unbound
    /\ expected_rating_list' = <<>> /\ coefficient_of_delta_list' = <<>>
    /\ delta_rating_array' = <<>> /\ new_rating_array' = <<>>
    /\ predict_time' = Unbound
    /\ save_tasks' = <<>> /\ user_tasks' = <<>> /\ update_times' = <<>>
    /\ failure' = "none" /\ outcome' = "none" /\ logged' = FALSE
    /\ iterations' = 0 /\ prev_lo' = Unbound /\ prev_hi' = Unbound
    /\ update_user_using_prediction' = StartsWithBi(contest_name)
    /\ pc' = "find"
    /\ UNCHANGED <<seriesVars, last_call, storeVars, now, contest_name, successes>>

\* the caller calls predict_contest(contest_name)
Start ==
    /\ pc = "idle"
    /\ Enter

\* the caller calls it again, after a run has ended and its tasks have settled
Restart ==
    /\ pc \in {"done", "raised"}
    /\ ~Pending(save_tasks) /\ ~Pending(user_tasks)
    /\ runs < MaxRuns
    /\ Enter

\* the run ends with an exception raised at step `step`
Raise(step) ==
    /\ pc' = "raised"
    /\ failure' = step
    /\ outcome' = ExceptionLoggerReraise(TRUE).outcome
    /\ logged' = ExceptionLoggerReraise(TRUE).logged

\* lines 62-78: the query returns; the three arrays are built
FindReturn ==
    /\ pc = "find"
    /\ \E s \in SortedLists(db, contest_name) :
          /\ records' = [j \in 1..Len(s) |-> Document(db, s[j])]
          /\ rank_array' = [j \in 1..Len(s) |-> db[s[j]].rank]
          /\ rating_array' = [j \in 1..Len(s) |-> db[s[j]].old_rating]
          /\ k_array' = [j \in 1..Len(s) |-> db[s[j]].attendedContestsCount]
    /\ expected_rating_list' = <<>>
    /\ coefficient_of_delta_list' = <<>>
    /\ i' = 1
    /\ pc' = "for"
    /\ UNCHANGED <<seriesVars, last_call, storeVars, now, runs, contest_name,
                   update_user_using_prediction, loopVars, resultVars,
                   predict_time, taskVars, endVars, successes>>

\* lines 62-69: the query fails
FindFail ==
    /\ pc = "find"
    /\ Raise("find")
    /\ UNCHANGED <<seriesVars, last_call, storeVars, now, runs, contest_name,
                   update_user_using_prediction, records, arrayVars, i, loopVars,
                   listVars, resultVars, predict_time, taskVars, successes>>

\* lines 79-87: the next contestant; the search interval is reset
ForEnter ==
    /\ pc = "for"
    /\ i <= Len(rank_array)
    /\ target' = Target(rating_array, rank_array, i)
    /\ lo' = Ticks(SearchLo)
    /\ hi' = Ticks(SearchHi)
    /\ max_iteration' = MaxIterationInit
    /\ iterations' = 0
    /\ pc' = "while"
    /\ UNCHANGED <<seriesVars, last_call, storeVars, now, runs, contest_name,
                   update_user_using_prediction, records, arrayVars, i, mid,
                   prev_lo, prev_hi, listVars, resultVars, predict_time,
                   taskVars, endVars, successes>>

\* lines 88-95: one execution of the loop body
WhileIter ==
    /\ pc = "while"
    /\ LoopCond(lo, hi, max_iteration)
    /\ mid' = Mid(lo, hi)
    /\ IF GoesDown(rating_array, mid', target)
       THEN hi' = mid' /\ lo' = lo
       ELSE lo' = mid' /\ hi' = hi
    /\ max_iteration' = max_iteration - 1
    /\ iterations' = iterations + 1
    /\ prev_lo' = lo /\ prev_hi' = hi
    /\ UNCHANGED <<seriesVars, last_call, storeVars, now, runs, contest_name, pc,
                   update_user_using_prediction, records, arrayVars, i, target,
                   listVars, resultVars, predict_time, taskVars, endVars,
                   successes>>

\* lines 96-99: the loop is left; expected_rating and the coefficient are
\* appended (a ValueError of the series ends the run)
WhileExit ==
    /\ pc = "while"
    /\ ~LoopCond(lo, hi, max_iteration)
    /\ LET call == AdjustmentCall(pre_cache, adj_cache, k_array[i])
       IN  /\ pre_cache' = call.pre
           /\ adj_cache' = call.adj
           /\ IF call.raised
              THEN /\ Raise("solve")
                   /\ UNCHANGED <<i, listVars>>
              ELSE /\ expected_rating_list' =
                         Append(expected_rating_list, ExpectedRating(lo, hi, mid))
                   /\ coefficient_of_delta_list' =
                         Append(coefficient_of_delta_list, call.value)
                   /\ i' = i + 1
                   /\ pc' = "for"
                   /\ UNCHANGED endVars
    /\ UNCHANGED <<last_call, storeVars, now, runs, contest_name,
                   update_user_using_prediction, records, arrayVars, loopVars,
                   resultVars, predict_time, taskVars, successes>>

\* lines 100-106: the loop over the contestants is over; the deltas and the new
\* ratings are computed
Aggregate ==
    /\ pc = "for"
    /\ i > Len(rank_array)
    /\ delta_rating_array' =
          [j \in 1..Len(rating_array) |->
             DeltaRating(coefficient_of_delta_list[j], expected_rating_list[j],
                         rating_array[j])]
    /\ new_rating_array' =
          [j \in 1..Len(rating_array) |-> rating_array[j] + delta_rating_array'[j]]
    /\ pc' = "assign"
    /\ UNCHANGED <<seriesVars, last_call, storeVars, now, runs, contest_name,
                   update_user_using_prediction, records, arrayVars, i, loopVars,
                   listVars, predict_time, taskVars, endVars, successes>>

\* non-decreasing clock readings, one per element, none before `from`
Readings(n, from) ==
    {ts \in [1..n -> from..MaxClock] : \A a, b \in 1..n : a < b => ts[a] <= ts[b]}

Last(ts, default) == IF Len(ts) = 0 THEN default ELSE ts[Len(ts)]

\* lines 109-115: one predict_time is read and written, with delta_rating and
\* new_rating, into every record; one save() per record is handed to gather
AssignAndGather ==
    /\ pc = "assign"
    /\ \E t \in now..MaxClock :
          /\ now' = t
          /\ predict_time' = t
          /\ records' =
                [j \in 1..Len(records) |->
                   [records[j] EXCEPT !.delta_rating = delta_rating_array[j],
                                      !.new_rating = new_rating_array[j],
                                      !.predict_time = t]]
    /\ save_tasks' = [j \in 1..Len(records) |-> "pending"]
    /\ pc' = "saving"
    /\ UNCHANGED <<seriesVars, last_call, storeVars, runs, contest_name,
                   update_user_using_prediction, arrayVars, i, loopVars, listVars,
                   resultVars, user_tasks, update_times, endVars, successes>>

\* the stored form of an in-memory document
Stored(doc) ==
    [f \in DOMAIN doc \ {"username"} |-> doc[f]]

\* record.save() of records[j] completes: the document replaces the stored one
SaveDone(j) ==
    /\ j \in DOMAIN save_tasks
    /\ save_tasks[j] = "pending"
    /\ db' = [db EXCEPT ![records[j].username] = Stored(records[j])]
    /\ save_tasks' = [save_tasks EXCEPT ![j] = "done"]
    /\ UNCHANGED <<seriesVars, last_call, users, contest_predict_time, now, runs,
                   contest_name, pc, update_user_using_prediction, records,
                   arrayVars, i, loopVars, listVars, resultVars, predict_time,
                   user_tasks, update_times, endVars, successes>>

\* record.save() of records[j] fails
SaveFail(j) ==
    /\ j \in DOMAIN save_tasks
    /\ save_tasks[j] = "pending"
    /\ save_tasks' = [save_tasks EXCEPT ![j] = "failed"]
    /\ UNCHANGED <<seriesVars, last_call, storeVars, now, runs, contest_name, pc,
                   update_user_using_prediction, records, arrayVars, i, loopVars,
                   listVars, resultVars, predict_time, user_tasks, update_times,
                   endVars, successes>>

\* lines 115-134: the first gather returns and update_user_using_prediction
\* holds: one User update per record is built (each Set reads the clock) and
\* handed to the second gather
SavesJoinedPropagate ==
    /\ pc = "saving"
    /\ GatherOutcome(save_tasks) = "return"
    /\ update_user_using_prediction
    /\ \E ts \in Readings(Len(records), now) :
          /\ update_times' = ts
          /\ now' = Last(ts, now)
    /\ user_tasks' = [j \in 1..Len(records) |-> "pending"]
    /\ pc' = "updating"
    /\ UNCHANGED <<seriesVars, last_call, storeVars, runs, contest_name,
                   update_user_using_prediction, records, arrayVars, i, loopVars,
                   listVars, resultVars, predict_time, save_tasks, endVars,
                   successes>>

\* lines 115-117: the first gather returns and the flag does not hold
SavesJoinedSkip ==
    /\ pc = "saving"
    /\ GatherOutcome(save_tasks) = "return"
    /\ ~update_user_using_prediction
    /\ pc' = "marking"
    /\ UNCHANGED <<seriesVars, last_call, storeVars, now, runs, contest_name,
                   update_user_using_prediction, records, arrayVars, i, loopVars,
                   listVars, resultVars, predict_time, taskVars, endVars,
                   successes>>

\* line 115: the first gather raises
SavesRaise ==
    /\ pc = "saving"
    /\ GatherOutcome(save_tasks) = "raise"
    /\ Raise("save")
    /\ UNCHANGED <<seriesVars, last_call, storeVars, now, runs, contest_name,
                   update_user_using_prediction, records, arrayVars, i, loopVars,
                   listVars, resultVars, predict_time, taskVars, successes>>

\* a faulty variant: the count incremented from the profile
AttendedAfter_Increment(doc, profile) == profile.attendedContestsCount + 1

\* User.attendedContestsCount: record.attendedContestsCount + 1
AttendedAfter(doc, profile) == doc.attendedContestsCount + 1

\* the update of records[j]'s User completes: Set(rating, count, update_time)
UserDone(j) ==
    /\ j \in DOMAIN user_tasks
    /\ user_tasks[j] = "pending"
    /\ users' =
          [users EXCEPT ![records[j].username] =
             [rating |-> records[j].new_rating,
              attendedContestsCount |->
                 AttendedAfter(records[j], users[records[j].username]),
              update_time |-> update_times[j]]]
    /\ user_tasks' = [user_tasks EXCEPT ![j] = "done"]
    /\ UNCHANGED <<seriesVars, last_call, db, contest_predict_time, now, runs,
                   contest_name, pc, update_user_using_prediction, records,
                   arrayVars, i, loopVars, listVars, resultVars, predict_time,
                   save_tasks, update_times, endVars, successes>>

\* the update of records[j]'s User fails
UserFail(j) ==
    /\ j \in DOMAIN user_tasks
    /\ user_tasks[j] = "pending"
    /\ user_tasks' = [user_tasks EXCEPT ![j] = "failed"]
    /\ UNCHANGED <<seriesVars, last_call, storeVars, now, runs, contest_name, pc,
                   update_user_using_prediction, records, arrayVars, i, loopVars,
                   listVars, resultVars, predict_time, save_tasks, update_times,
                   endVars, successes>>

\* line 134: the second gather returns
UsersJoined ==
    /\ pc = "updating"
    /\ GatherOutcome(user_tasks) = "return"
    /\ pc' = "marking"
    /\ UNCHANGED <<seriesVars, last_call, storeVars, now, runs, contest_name,
                   update_user_using_prediction, records, arrayVars, i, loopVars,
                   listVars, resultVars, predict_time, taskVars, endVars,
                   successes>>

\* line 134: the second gather raises
UsersRaise ==
    /\ pc = "updating"
    /\ GatherOutcome(user_tasks) = "raise"
    /\ Raise("update")
    /\ UNCHANGED <<seriesVars, last_call, storeVars, now, runs, contest_name,
                   update_user_using_prediction, records, arrayVars, i, loopVars,
                   listVars, resultVars, predict_time, taskVars, successes>>

\* a faulty variant: the Contest stamped with the records' predict_time
MarkTime_BatchTime(batch, reading) == batch

\* Contest.predict_time: datetime.utcnow()
MarkTime(batch, reading) == reading

\* lines 136-143: the Contest update, stamped with a new reading of the clock;
\* the run returns
MarkDone ==
    /\ pc = "marking"
    /\ \E t \in now..MaxClock :
          /\ now' = t
          /\ contest_predict_time' = MarkTime(predict_time, t)
    /\ pc' = "done"
    /\ outcome' = ExceptionLoggerReraise(FALSE).outcome
    /\ logged' = ExceptionLoggerReraise(FALSE).logged
    /\ successes' = successes + 1
    /\ UNCHANGED <<seriesVars, last_call, db, users, runs, contest_name,
                   update_user_using_prediction, records, arrayVars, i, loopVars,
                   listVars, resultVars, predict_time, taskVars, failure>>

\* lines 136-142: the Contest update fails
MarkFail ==
    /\ pc = "marking"
    /\ Raise("mark")
    /\ UNCHANGED <<seriesVars, last_call, storeVars, now, runs, contest_name,
                   update_user_using_prediction, records, arrayVars, i, loopVars,
                   listVars, resultVars, predict_time, taskVars, successes>>

Run ==
    \/ FindReturn
    \/ FindFail
    \/ ForEnter
    \/ WhileIter
    \/ WhileExit
    \/ Aggregate
    \/ AssignAndGather
    \/ \E j \in 1..MaxUsers : SaveDone(j)
    \/ \E j \in 1..MaxUsers : SaveFail(j)
    \/ SavesJoinedPropagate
    \/ SavesJoinedSkip
    \/ SavesRaise
    \/ \E j \in 1..MaxUsers : UserDone(j)
    \/ \E j \in 1..MaxUsers : UserFail(j)
    \/ UsersJoined
    \/ UsersRaise
    \/ MarkDone
    \/ MarkFail

Next == Start \/ Run

Spec == Init /\ [][Next]_vars

\* the event loop runs every task that can run, and every collaborator answers
FairSpec == Spec /\ WF_vars(Next)

RerunNext == Start \/ Restart \/ Run

RerunSpec == RerunInit /\ [][RerunNext]_vars

\* --------------------------------------------------- the solver on its own

\* lines 71-106 on the arrays of any records the query can return: ascending
\* ranks (ties allowed), ratings and counts from small sets
SolverInit ==
    /\ pre_cache = {} /\ adj_cache = {} /\ last_call = NoCall
    /\ contest_name = <<"w", "b", "i">>
    /\ \E n \in 1..MaxN :
          /\ rank_array \in
                {r \in [1..n -> 1..MaxRank] : \A a, b \in 1..n : a < b => r[a] <= r[b]}
          /\ rating_array \in [1..n -> SolverRatings]
          /\ k_array \in [1..n -> 0..MaxK]
    /\ records =
          [j \in 1..Len(rank_array) |->
             [username |-> j, contest_name |-> contest_name, score |-> 1,
              rank |-> rank_array[j], old_rating |-> rating_array[j],
              attendedContestsCount |-> k_array[j], delta_rating |-> Unbound,
              new_rating |-> Unbound, predict_time |-> Unbound]]
    /\ db = [j \in 1..Len(records) |-> Stored(records[j])]
    /\ users = [j \in 1..Len(records) |->
                  [rating |-> rating_array[j],
                   attendedContestsCount |-> k_array[j], update_time |-> 0]]
    /\ contest_predict_time = Unbound
    /\ now = 1 /\ runs = 1 /\ successes = 0
    /\ pc = "for"
    /\ update_user_using_prediction = FALSE
    /\ i = 1
    /\ lo = Unbound /\ hi = Unbound /\ mid = Unbound
    /\ max_iteration = Unbound /\ target = Unbound
    /\ expected_rating_list = <<>> /\ coefficient_of_delta_list = <<>>
    /\ delta_rating_array = <<>> /\ new_rating_array = <<>>
    /\ predict_time = Unbound
    /\ save_tasks = <<>> /\ user_tasks = <<>> /\ update_times = <<>>
    /\ failure = "none" /\ outcome = "none" /\ logged = FALSE
    /\ iterations = 0 /\ prev_lo = Unbound /\ prev_hi = Unbound

SolverNext == ForEnter \/ WhileIter \/ WhileExit \/ Aggregate

SolverSpec == SolverInit /\ [][SolverNext]_vars

\* --------------------------------------------------- the series on its own

SeriesKs == (0 - MaxNegK)..MaxSeriesK

SeriesInit ==
    /\ pre_cache = {} /\ adj_cache = {} /\ last_call = NoCall
    /\ contest_name = <<"b">>
    /\ db = <<>> /\ users = <<>>
    /\ contest_predict_time = Unbound
    /\ now = 1 /\ runs = 0 /\ successes = 0
    /\ pc = "idle"
    /\ update_user_using_prediction = FALSE
    /\ BlankRun

runVars ==
    <<storeVars, now, runs, contest_name, pc, update_user_using_prediction,
      records, arrayVars, i, loopVars, listVars, resultVars, predict_time,
      taskVars, endVars, successes>>

\* a call pre_sum_of_sigma(k)
CallPreSum(k) ==
    /\ LET call == PreSumCall(pre_cache, k)
       IN  /\ pre_cache' = call.pre
           /\ last_call' = [fn |-> "pre_sum_of_sigma", k |-> k,
                            raised |-> call.raised, value |-> call.value]
    /\ UNCHANGED <<adj_cache, runVars>>

\* a call adjustment_for_delta_coefficient(k)
CallAdjustment(k) ==
    /\ LET call == AdjustmentCall(pre_cache, adj_cache, k)
       IN  /\ pre_cache' = call.pre
           /\ adj_cache' = call.adj
           /\ last_call' = [fn |-> "adjustment_for_delta_coefficient", k |-> k,
                            raised |-> call.raised, value |-> call.value]
    /\ UNCHANGED runVars

SeriesNext ==
    \/ \E k \in SeriesKs : CallPreSum(k)
    \/ \E k \in SeriesKs : CallAdjustment(k)

SeriesSpec == SeriesInit /\ [][SeriesNext]_vars

\* -------------------------------------------------------------- properties

SaveFailed == \E j \in DOMAIN save_tasks : save_tasks[j] = "failed"
UserFailed == \E j \in DOMAIN user_tasks : user_tasks[j] = "failed"
AllSaved == \A j \in DOMAIN save_tasks : save_tasks[j] = "done"
AllUpdated == \A j \in DOMAIN user_tasks : user_tasks[j] = "done"
UpdateStarted == DOMAIN user_tasks # {}
Marked == contest_predict_time # Unbound

\* the name starts with "bi" in any mix of upper and lower case
NamedBi(name) ==
    Len(name) >= 2 /\ name[1] \in {"b", "B"} /\ name[2] \in {"i", "I"}

\* C1: a User update is started only when every record.save() of the run has
\* completed: none while a save is still pending, none once a save has failed.
C1_UpdatesOnlyAfterAllSaves ==
    UpdateStarted =>
        /\ Len(save_tasks) = Len(records)
        /\ AllSaved

C1_Witness ==
    /\ Len(records) = MaxUsers
    /\ \E j \in DOMAIN user_tasks : user_tasks[j] = "pending"

\* C2: a failed step aborts the steps after it.  Once a save has failed no User
\* update is issued and the Contest is never stamped; once a User update has
\* failed the Contest is never stamped; a failed query issues nothing at all;
\* a run that raised shows the exception to its caller, after logging it; and
\* every record whose save completed keeps the values the run computed, also
\* when the run has raised (nothing is rolled back).
C2_FailureAbortsWithoutRollback ==
    /\ SaveFailed => ~UpdateStarted /\ ~Marked /\ pc \in {"saving", "raised"}
    /\ UserFailed => ~Marked /\ pc \in {"updating", "raised"}
    /\ failure = "find" => save_tasks = <<>> /\ user_tasks = <<>> /\ ~Marked
    /\ failure = "save" => SaveFailed
    /\ failure = "update" => UserFailed
    /\ pc = "raised" <=> failure # "none"
    /\ pc = "raised" => outcome = "raised" /\ logged
    /\ \A j \in DOMAIN save_tasks :
          save_tasks[j] = "done" => db[records[j].username] = Stored(records[j])

C2_Witness ==
    /\ pc = "raised"
    /\ failure = "save"
    /\ \E j \in DOMAIN save_tasks : save_tasks[j] = "done"

\* C3: for every contestant the body of the binary-search loop is executed at
\* most 25 times.
C3_AtMost25Iterations == iterations <= 25

C3_Witness ==
    /\ pc = "for"
    /\ Len(expected_rating_list) = Len(rank_array)
    /\ iterations > 0

\* C4 as claimed: the value appended as expected_rating is the midpoint of the
\* interval [lo, hi] the loop was left with.
C4_ReturnsMidpointOfFinalInterval ==
    (pc = "for" /\ Len(expected_rating_list) >= 1) =>
        2 * expected_rating_list[Len(expected_rating_list)] = lo + hi

\* C4 as amended: the value appended as expected_rating is the last midpoint
\* the loop evaluated, the midpoint of the interval before its last narrowing;
\* it is an end (lo or hi) of the interval the loop was left with.
C4_ReturnsLastEvaluatedMidpoint ==
    (pc = "for" /\ Len(expected_rating_list) >= 1) =>
        LET e == expected_rating_list[Len(expected_rating_list)]
        IN  /\ e = Mid(prev_lo, prev_hi)
            /\ e \in {lo, hi}
            /\ lo < hi

C4_Witness ==
    /\ pc = "for"
    /\ Len(expected_rating_list) >= 1
    /\ expected_rating_list[Len(expected_rating_list)] = hi
    /\ lo > Ticks(SearchLo)

\* C5 as claimed: the predict_time stamped on the Contest is the predict_time
\* written into the records of the run.
C5_ContestCarriesBatchTime ==
    pc = "done" => contest_predict_time = predict_time

\* C5 as amended: every record of a run carries the one predict_time read
\* before the saves, in memory and as stored; the Contest is stamped with
\* another reading of the clock, the one taken when its update is issued.
C5_RecordsShareTimeContestReadsAgain ==
    pc = "done" =>
        /\ \A j \in DOMAIN records :
              /\ records[j].predict_time = predict_time
              /\ db[records[j].username].predict_time = predict_time
        /\ contest_predict_time = now

C5_Witness ==
    /\ pc = "done"
    /\ Len(records) = MaxUsers
    /\ contest_predict_time # predict_time

\* the steps of a run are in order: updates only after every save, the stamp
\* only after every save and every update, and only as the last step
StepsInOrder ==
    /\ UpdateStarted => AllSaved /\ Len(save_tasks) = Len(records)
    /\ pc \in {"marking", "done"} =>
          AllSaved /\ AllUpdated /\ Len(save_tasks) = Len(records)
    /\ Marked => pc = "done"

\* the updates are issued exactly for a name that starts with "bi"
PropagatesIffBi ==
    /\ pc # "idle" => (update_user_using_prediction <=> NamedBi(contest_name))
    /\ ~NamedBi(contest_name) => ~UpdateStarted
    /\ (pc \in {"marking", "done"} /\ NamedBi(contest_name)) =>
          Len(user_tasks) = Len(records)

\* a run ends raised only when a collaborator has failed
RaisedOnlyByCollaborator ==
    pc = "raised" =>
        \/ failure = "find"
        \/ failure = "save" /\ SaveFailed
        \/ failure = "update" /\ UserFailed
        \/ failure = "mark"

\* C6: a run in which no collaborator fails ends with the Contest stamped,
\* after the saves, then the User updates, then the stamp; the User updates are
\* issued if and only if the contest name starts with "bi" in any case, and
\* none is ever issued otherwise.
C6_RunCompletesInOrder ==
    /\ [](StepsInOrder /\ PropagatesIffBi /\ RaisedOnlyByCollaborator)
    /\ [](pc = "done" => Marked)
    /\ (pc = "find") ~> (pc = "done" \/ pc = "raised")

C6_Witness ==
    /\ pc = "done"
    /\ Marked
    /\ Len(records) = MaxUsers
    /\ contest_name = <<"B", "I", "w">>
    /\ AllUpdated /\ Len(user_tasks) = MaxUsers

\* the query of the run returned no record
EmptyLoaded == pc \notin {"idle", "find"} /\ failure # "find" /\ Len(records) = 0

\* C7: a run whose query returns no record issues no save and no User update
\* (whatever the contest name), raises only if the Contest update itself
\* fails, and otherwise ends with the Contest stamped.
C7_EmptyListStillMarks ==
    /\ [](EmptyLoaded =>
            /\ save_tasks = <<>> /\ user_tasks = <<>>
            /\ \A u \in Users :
                  db[u].predict_time = Unbound /\ users[u].update_time = 0
            /\ pc = "raised" => failure = "mark"
            /\ pc = "done" => Marked /\ outcome = "returned")
    /\ EmptyLoaded ~> (pc = "done" \/ failure = "mark")

C7_Witness ==
    /\ EmptyLoaded
    /\ pc = "done"
    /\ Marked
    /\ update_user_using_prediction
    /\ \E u \in Users : db[u].contest_name = contest_name

\* two contestants of the run with equal old_rating and equal count, the first
\* of strictly better rank
SamePriorBetterRank(a, b) ==
    /\ rating_array[a] = rating_array[b]
    /\ k_array[a] = k_array[b]
    /\ rank_array[a] < rank_array[b]

\* C8 as claimed: of two contestants with equal old_rating and equal
\* prior-event count, the one of strictly better rank gets a strictly greater
\* new_rating.
C8_StrictlyMonotonic ==
    pc = "assign" =>
        \A a, b \in DOMAIN new_rating_array :
            SamePriorBetterRank(a, b) => new_rating_array[a] > new_rating_array[b]

\* C8 as amended: the one of strictly better rank gets a new_rating that is
\* greater than or equal to the other's (equal when both searches end on the
\* same point of the grid).
C8_WeaklyMonotonic ==
    pc = "assign" =>
        \A a, b \in DOMAIN new_rating_array :
            SamePriorBetterRank(a, b) => new_rating_array[a] >= new_rating_array[b]

C8_Witness ==
    /\ pc = "assign"
    /\ \E a, b \in DOMAIN new_rating_array :
          SamePriorBetterRank(a, b) /\ new_rating_array[a] > new_rating_array[b]

\* C9: a call of pre_sum_of_sigma (directly, or through
\* adjustment_for_delta_coefficient) raises exactly when k < 0, whatever was
\* called before; no negative key is ever cached; pre_sum_of_sigma(0) is 1.
C9_RaisesExactlyBelowZero ==
    /\ last_call.fn # "none" => (last_call.raised <=> last_call.k < 0)
    /\ \A k \in pre_cache \cup adj_cache : k >= 0
    /\ (last_call.fn = "pre_sum_of_sigma" /\ last_call.k = 0) =>
          last_call.value = <<1, 1>>

C9_Witness ==
    /\ last_call.raised
    /\ last_call.fn = "pre_sum_of_sigma"
    /\ pre_cache # {} /\ adj_cache # {}

\* C10: once a run for a "bi" contest has ended normally, and after any number
\* of further runs on the same stored records, the profile of every contestant
\* holds the record's attendedContestsCount + 1 and the record's new_rating.
C10_PropagationIdempotent ==
    (successes >= 1 /\ NamedBi(contest_name)) =>
        \A u \in Matching(db, contest_name) :
            /\ users[u].attendedContestsCount = db[u].attendedContestsCount + 1
            /\ users[u].rating = db[u].new_rating
            /\ db[u].new_rating # Unbound

C10_Witness ==
    /\ successes = MaxRuns
    /\ pc = "done"
    /\ NamedBi(contest_name)
    /\ Cardinality(Matching(db, contest_name)) = MaxUsers

====
